---------------------------- MODULE Spec2Model ----------------------------
(***************************************************************************)
(* Deprecation detection and notification sinks of urllib3's deprecation   *)
(* extension: src/urllib3/deprecation.py (detection on an OpenAPI          *)
(* document, the configuration registry, the log sink),                    *)
(* src/urllib3/slack.py (Slack webhook sink with its JSON history file)    *)
(* and src/urllib3/jira.py (Jira sink: issue search, label merge, issue    *)
(* creation).                                                              *)
(*                                                                         *)
(* Python values are modelled as follows.  A str that the code only        *)
(* compares or uses as a key (paths, URLs, dict keys) is a TLA+ string.    *)
(* A str the code converts or orders (HTTP methods: lower()/upper();       *)
(* parameter names: sorted()) is the sequence of its character codes.      *)
(* A dict is a function on its key set, so "k in d" is k \in DOMAIN d.     *)
(* A list is a sequence.  None is the record None below; a value that may  *)
(* be None is a record too: PyList(s) for a list, PyStr(t) for a rendered  *)
(* str, a record of fields for a datetime.                                 *)
(***************************************************************************)
EXTENDS Integers, Sequences, FiniteSets, TLC

VARIABLES
    oas,            \* the OpenAPI document handed to the detection functions
    det_call,       \* the detection call made: function name and arguments
    det_result,     \* its outcome: a returned value or the KeyError raised
    slack_file,     \* the file at config.file_path: NoFile or its JSON array
    slack_sent,     \* history variable: the events of the sends that completed
    slack_call,     \* the last Slack operation and its outcome
    slack_emit,     \* history variable: the last emit-then-record runs made
                    \* in a row with one event
    jira_issues,    \* the issues of the remote Jira project, oldest first
    jira_call,      \* the last Jira operation, its requests and its outcome
    registry,       \* the module globals of deprecation.py (lines 15-19)
    reg_call,       \* the last registry operation and its arguments
    log_state,      \* the handlers of logging.getLogger("deprecation_logger"),
                    \* the log files and each configuration's logger field
    log_call        \* the last create_log call and the files as they were
                    \* before it

vars == <<oas, det_call, det_result, slack_file, slack_sent, slack_call,
          slack_emit, jira_issues, jira_call, registry, reg_call, log_state,
          log_call>>

detVars == <<oas, det_call, det_result>>
slackVars == <<slack_file, slack_sent, slack_call, slack_emit>>
jiraVars == <<jira_issues, jira_call>>
regVars == <<registry, reg_call>>
logVars == <<log_state, log_call>>

(***************************************************************************)
(* Bounds of the model.                                                    *)
(***************************************************************************)
MaxDecl == 2        \* longest `parameters` list of an operation
MaxReq == 2         \* longest list of requested parameter names
MaxHist == 2        \* most records in the Slack history file

(***************************************************************************)
(* Python values.                                                          *)
(***************************************************************************)
None == [py |-> "None"]

PyList(s) == [py |-> "list", items |-> s]

PyStr(t) == [py |-> "str", text |-> t]

Range(s) == {s[i] : i \in DOMAIN s}

\* Character codes: "A".."Z" are 65..90, "a".."z" are 97..122.
lower_char(c) == IF c >= 65 /\ c <= 90 THEN c + 32 ELSE c

upper_char(c) == IF c >= 97 /\ c <= 122 THEN c - 32 ELSE c

\* Mutant: the method is used as given, never lower-cased.
lower_not_applied(s) == s

\* str.lower() and str.upper() on ASCII strings.
lower(s) == [i \in DOMAIN s |-> lower_char(s[i])]

upper(s) == [i \in DOMAIN s |-> upper_char(s[i])]

\* The strings used as HTTP methods and dict keys.
GET == <<71, 69, 84>>
get == <<103, 101, 116>>
Get == <<71, 101, 116>>
PUT == <<80, 85, 84>>
put == <<112, 117, 116>>

\* The strings used as parameter names: "a" and "b".
NameA == <<97>>
NameB == <<98>>
Names == {NameA, NameB}

\* All sequences over S of length at most n.
SeqsUpTo(S, n) == UNION {[1..k -> S] : k \in 0..n}

(***************************************************************************)
(* OpenAPI documents.  oas["paths"][path][method] is an operation: a dict  *)
(* that may hold "deprecated" (a bool) and "parameters" (a list of         *)
(* parameter objects with "name", "in" and possibly "deprecated").         *)
(***************************************************************************)
Locations == {"query", "header", "path", "cookie"}

Param(n, loc, dep) == [name |-> n, in |-> loc, deprecated |-> dep]

ParamNoFlag(n, loc) == [name |-> n, in |-> loc]

\* Declared parameters: deprecated and plain query parameters, one without
\* the flag, and deprecated parameters in every other location that share
\* their name with a deprecated query parameter.
ParamObjects ==
    {Param(n, "query", TRUE) : n \in Names}
        \cup {Param(NameB, "query", FALSE), ParamNoFlag(NameB, "query")}
        \cup {Param(NameA, loc, TRUE) : loc \in Locations \ {"query"}}

ParamDecls == SeqsUpTo(ParamObjects, MaxDecl)

Operations ==
    {[deprecated |-> d, parameters |-> ps] : d \in BOOLEAN, ps \in ParamDecls}
        \cup {[parameters |-> ps] : ps \in ParamDecls}
        \cup {[deprecated |-> d] : d \in BOOLEAN}
        \cup {[summary |-> "op"]}

\* A second operation of the document, never the one under test.
OtherOperation == [deprecated |-> FALSE, parameters |-> <<>>]

\* The documents: no path at all, one path with one method, and two paths
\* (one of them templated) the first with two methods.
Documents ==
    {[paths |-> << >>]}
        \cup {[paths |-> [p \in {"/users"} |-> [m \in {get} |-> op]]] :
                op \in Operations}
        \cup {[paths |-> [p \in {"/users", "/users/{id}"} |->
                            IF p = "/users"
                            THEN [m \in {get, put} |->
                                    IF m = get THEN OtherOperation ELSE op]
                            ELSE [m \in {get} |-> op]]] :
                op \in Operations}

RequestPaths == {"/users", "/users/{id}", "/users/1"}
RequestMethods == {GET, get, Get, PUT}
RequestedNames == SeqsUpTo(Names, MaxReq)

(***************************************************************************)
(* Outcomes of a call.                                                     *)
(***************************************************************************)
Return(v) == [kind |-> "return", value |-> v]

\* KeyError(f"Path {path} not found ...")
PathNotFound(path) == [kind |-> "KeyError", missing |-> "path", path |-> path]

\* KeyError(f"Method {method.upper()} for path {path} not found ...")
MethodNotFound(path, method) ==
    [kind |-> "KeyError", missing |-> "method", path |-> path,
     method |-> upper(method)]

\* KeyError(f"No parameters found for {path} with method {method.upper()} ...")
ParametersNotFound(path, method) ==
    [kind |-> "KeyError", missing |-> "parameters", path |-> path,
     method |-> upper(method)]

NoCall == [kind |-> "none"]

(***************************************************************************)
(* deprecation.py: is_operation_deprecated                                 *)
(***************************************************************************)
\* Mutant: answers whether the "deprecated" key is present, not its value.
is_operation_deprecated_key_presence(doc, path, method) ==
    IF path \notin DOMAIN doc["paths"]
    THEN PathNotFound(path)
    ELSE IF lower(method) \notin DOMAIN doc["paths"][path]
    THEN MethodNotFound(path, method)
    ELSE Return("deprecated" \in DOMAIN doc["paths"][path][lower(method)])

is_operation_deprecated(doc, path, method) ==
    IF path \notin DOMAIN doc["paths"]
    THEN PathNotFound(path)
    ELSE IF lower(method) \notin DOMAIN doc["paths"][path]
    THEN MethodNotFound(path, method)
    ELSE IF "deprecated" \notin DOMAIN doc["paths"][path][lower(method)]
    THEN Return(FALSE)
    ELSE Return(doc["paths"][path][lower(method)]["deprecated"])

(***************************************************************************)
(* deprecation.py: are_parameter_deprecated                                *)
(***************************************************************************)
\* Mutant: the location of the parameter is not looked at.
IsFlagged_any_location(parameter_object, parameter) ==
    /\ "deprecated" \in DOMAIN parameter_object
    /\ parameter_object["deprecated"]
    /\ parameter_object["name"] \in Range(parameter)

\* The condition of the loop body, line 73.
IsFlagged(parameter_object, parameter) ==
    /\ "deprecated" \in DOMAIN parameter_object
    /\ parameter_object["deprecated"]
    /\ parameter_object["name"] \in Range(parameter)
    /\ parameter_object["in"] = "query"

\* Mutant: the requested names are scanned, in the order they were given.
ScanParameters_request_order(declared, parameter, i, acc) ==
    SelectSeq(parameter,
              LAMBDA n : \E j \in DOMAIN declared :
                            /\ declared[j]["name"] = n
                            /\ IsFlagged(declared[j], parameter))

\* The loop of lines 71-74 from index i on, deprecatedParams so far in acc.
RECURSIVE ScanParameters(_, _, _, _)
ScanParameters(declared, parameter, i, acc) ==
    IF i > Len(declared)
    THEN acc
    ELSE ScanParameters(declared, parameter, i + 1,
                        IF IsFlagged(declared[i], parameter)
                        THEN Append(acc, declared[i]["name"])
                        ELSE acc)

\* Mutant: a missing path or method answers (False, []) instead of raising.
are_parameter_deprecated_default(doc, path, method, parameter) ==
    IF path \notin DOMAIN doc["paths"]
    THEN Return(<<FALSE, <<>>>>)
    ELSE IF lower(method) \notin DOMAIN doc["paths"][path]
    THEN Return(<<FALSE, <<>>>>)
    ELSE IF "parameters" \notin DOMAIN doc["paths"][path][lower(method)]
    THEN ParametersNotFound(path, method)
    ELSE LET deprecatedParams ==
                ScanParameters(doc["paths"][path][lower(method)]["parameters"],
                               parameter, 1, <<>>)
         IN  Return(<<deprecatedParams # <<>>, deprecatedParams>>)

\* Mutant: a missing "parameters" field is read as an empty list, and an
\* empty list raises.
are_parameter_deprecated_empty_raises(doc, path, method, parameter) ==
    IF path \notin DOMAIN doc["paths"]
    THEN PathNotFound(path)
    ELSE IF lower(method) \notin DOMAIN doc["paths"][path]
    THEN MethodNotFound(path, method)
    ELSE IF "parameters" \notin DOMAIN doc["paths"][path][lower(method)]
    THEN Return(<<FALSE, <<>>>>)
    ELSE IF doc["paths"][path][lower(method)]["parameters"] = <<>>
    THEN ParametersNotFound(path, method)
    ELSE LET deprecatedParams ==
                ScanParameters(doc["paths"][path][lower(method)]["parameters"],
                               parameter, 1, <<>>)
         IN  Return(<<deprecatedParams # <<>>, deprecatedParams>>)

are_parameter_deprecated(doc, path, method, parameter) ==
    IF path \notin DOMAIN doc["paths"]
    THEN PathNotFound(path)
    ELSE IF lower(method) \notin DOMAIN doc["paths"][path]
    THEN MethodNotFound(path, method)
    ELSE IF "parameters" \notin DOMAIN doc["paths"][path][lower(method)]
    THEN ParametersNotFound(path, method)
    ELSE LET deprecatedParams ==
                ScanParameters(doc["paths"][path][lower(method)]["parameters"],
                               parameter, 1, <<>>)
         IN  Return(<<deprecatedParams # <<>>, deprecatedParams>>)

(***************************************************************************)
(* The detection calls.  The two functions read the document and keep no   *)
(* state, so a behaviour is one call on the document drawn by Init.        *)
(***************************************************************************)
DetectionInit ==
    /\ oas \in Documents
    /\ det_call = NoCall
    /\ det_result = NoCall

CallIsOperationDeprecated(path, method) ==
    /\ det_call = NoCall
    /\ det_call' = [kind |-> "call", fn |-> "is_operation_deprecated",
                    path |-> path, method |-> method]
    /\ det_result' = is_operation_deprecated(oas, path, method)
    /\ UNCHANGED <<oas, slackVars, jiraVars, regVars, logVars>>

CallAreParameterDeprecated(path, method, parameter) ==
    /\ det_call = NoCall
    /\ det_call' = [kind |-> "call", fn |-> "are_parameter_deprecated",
                    path |-> path, method |-> method,
                    parameter |-> parameter]
    /\ det_result' = are_parameter_deprecated(oas, path, method, parameter)
    /\ UNCHANGED <<oas, slackVars, jiraVars, regVars, logVars>>

DetectionNext ==
    \/ \E path \in RequestPaths, method \in RequestMethods :
            CallIsOperationDeprecated(path, method)
    \/ \E path \in RequestPaths, method \in RequestMethods,
           parameter \in RequestedNames :
            CallAreParameterDeprecated(path, method, parameter)

(***************************************************************************)
(* Deprecation events: the arguments shared by the sinks' functions.       *)
(* A datetime is its wall-clock reading and its UTC offset in hours;       *)
(* isoformat renders both, so two datetimes of one instant in different    *)
(* zones render differently.                                               *)
(***************************************************************************)
Event(url, method, params, dep, sunset) ==
    [deprecation_url |-> url, http_method |-> method,
     deprecated_parameter |-> params, deprecation_datetime |-> dep,
     sunset_datetime |-> sunset]

DeprecationDate == [wall |-> 10, utcoffset |-> 0]
\* The instant of DeprecationDate read in another time zone.
DeprecationDateOtherZone == [wall |-> 12, utcoffset |-> 2]
SunsetDate == [wall |-> 22, utcoffset |-> 2]

\* datetime.isoformat(): the text "<wall clock>+<offset>".
isoformat(dt) == PyStr(<<dt["wall"], dt["utcoffset"]>>)

URLs == {"https://api.test/users", "https://api.test/items"}

\* Lists of distinct names, in every order.
ParamLists ==
    {ps \in SeqsUpTo(Names, Cardinality(Names)) :
        \A i, j \in DOMAIN ps : ps[i] = ps[j] => i = j}

BaseEvent == Event("https://api.test/users", GET, None, None, None)

\* How many of the five fields differ from BaseEvent's.
Deviations(e) == Cardinality({k \in DOMAIN e : e[k] # BaseEvent[k]})

\* The events: the base event and every event that differs from it in one
\* field (the other URL, the method in lower case, a parameter list that is
\* empty or holds names in either order, a deprecation timestamp in either
\* of two zones, a sunset timestamp).
Events ==
    {e \in {Event(u, m, ps, d, s) :
                u \in URLs, m \in {GET, get}, ps \in {None} \cup {PyList(l) : l \in ParamLists},
                d \in {None, DeprecationDate, DeprecationDateOtherZone},
                s \in {None, SunsetDate}} :
        Deviations(e) <= 1}

(***************************************************************************)
(* Python built-ins used by slack.py.                                      *)
(***************************************************************************)
\* s < t on str: lexicographic on the character codes.
str_lt(s, t) ==
    \E k \in 1..Len(t) :
        /\ \A j \in 1..(k - 1) : j <= Len(s) /\ s[j] = t[j]
        /\ k > Len(s) \/ s[k] < t[k]

\* Insertion of x into the sorted list srt, after the elements not above it.
RECURSIVE insort(_, _)
insort(srt, x) ==
    IF srt = <<>> THEN <<x>>
    ELSE IF str_lt(x, Head(srt)) THEN <<x>> \o srt
    ELSE <<Head(srt)>> \o insort(Tail(srt), x)

\* sorted(list of str)
RECURSIVE sorted(_)
sorted(lst) ==
    IF lst = <<>> THEN <<>>
    ELSE insort(sorted(SubSeq(lst, 1, Len(lst) - 1)), lst[Len(lst)])

\* Truth value of an optional list: None and [] are false.
truthy(v) == v # None /\ v["items"] # <<>>

\* json.dump of the list of messages: None is written as null, strings and
\* lists as they are.  (The keys "http-method", "deprecated-parameter",
\* "deprecation-header" and "sunset-header" are spelt with "_" here.)
JsonNull == [json |-> "null"]

json_value(v) == IF v = None THEN JsonNull ELSE v

json_dump(messages) ==
    [i \in DOMAIN messages |->
        [url |-> messages[i]["url"],
         http_method |-> messages[i]["http_method"],
         deprecated_parameter |-> json_value(messages[i]["deprecated_parameter"]),
         deprecation_header |-> json_value(messages[i]["deprecation_header"]),
         sunset_header |-> json_value(messages[i]["sunset_header"])]]

\* json.load of the file's text: null is read as None.
python_value(v) == IF v = JsonNull THEN None ELSE v

json_load(text) ==
    [i \in DOMAIN text |->
        [url |-> text[i]["url"],
         http_method |-> text[i]["http_method"],
         deprecated_parameter |-> python_value(text[i]["deprecated_parameter"]),
         deprecation_header |-> python_value(text[i]["deprecation_header"]),
         sunset_header |-> python_value(text[i]["sunset_header"])]]

\* The file at config.file_path: absent, or holding a JSON text.
NoFile == [exists |-> FALSE]

File(text) == [exists |-> TRUE, text |-> text]

(***************************************************************************)
(* slack.py: send_deprecation_webhook_slack                                *)
(***************************************************************************)
\* Mutant: the method is stored in upper case.
send_new_message_upper_method(e) ==
    [url |-> e["deprecation_url"],
     http_method |-> upper(e["http_method"]),
     deprecated_parameter |->
        IF truthy(e["deprecated_parameter"])
        THEN PyList(sorted(e["deprecated_parameter"]["items"])) ELSE None,
     deprecation_header |->
        IF e["deprecation_datetime"] # None
        THEN isoformat(e["deprecation_datetime"]) ELSE None,
     sunset_header |->
        IF e["sunset_datetime"] # None
        THEN isoformat(e["sunset_datetime"]) ELSE None]

\* Mutant: the parameter list is stored in the order given.
send_new_message_unsorted(e) ==
    [url |-> e["deprecation_url"],
     http_method |-> e["http_method"],
     deprecated_parameter |->
        IF truthy(e["deprecated_parameter"])
        THEN e["deprecated_parameter"] ELSE None,
     deprecation_header |->
        IF e["deprecation_datetime"] # None
        THEN isoformat(e["deprecation_datetime"]) ELSE None,
     sunset_header |->
        IF e["sunset_datetime"] # None
        THEN isoformat(e["sunset_datetime"]) ELSE None]

\* new_message of lines 109-115.
send_new_message(e) ==
    [url |-> e["deprecation_url"],
     http_method |-> e["http_method"],
     deprecated_parameter |->
        IF truthy(e["deprecated_parameter"])
        THEN PyList(sorted(e["deprecated_parameter"]["items"])) ELSE None,
     deprecation_header |->
        IF e["deprecation_datetime"] # None
        THEN isoformat(e["deprecation_datetime"]) ELSE None,
     sunset_header |->
        IF e["sunset_datetime"] # None
        THEN isoformat(e["sunset_datetime"]) ELSE None]

\* Mutant: the file is written with the new record alone.
send_write_history_new_only(file, e) ==
    File(json_dump(<<send_new_message(e)>>))

\* Lines 101-122: the file's content after the POST returned.
send_write_history(file, e) ==
    LET old_messages ==
            IF file = NoFile THEN <<>> ELSE json_load(file["text"])
    IN  File(json_dump(Append(old_messages, send_new_message(e))))

(***************************************************************************)
(* slack.py: check_if_already_send                                         *)
(***************************************************************************)
\* Mutant: only an absent parameter list becomes None, an empty one stays.
check_new_message_is_not_none(e) ==
    [url |-> e["deprecation_url"],
     http_method |-> e["http_method"],
     deprecated_parameter |->
        IF e["deprecated_parameter"] # None
        THEN PyList(sorted(e["deprecated_parameter"]["items"])) ELSE None,
     deprecation_header |->
        IF e["deprecation_datetime"] # None
        THEN isoformat(e["deprecation_datetime"]) ELSE None,
     sunset_header |->
        IF e["sunset_datetime"] # None
        THEN isoformat(e["sunset_datetime"]) ELSE None]

\* new_message of lines 139-145.
check_new_message(e) ==
    [url |-> e["deprecation_url"],
     http_method |-> e["http_method"],
     deprecated_parameter |->
        IF truthy(e["deprecated_parameter"])
        THEN PyList(sorted(e["deprecated_parameter"]["items"])) ELSE None,
     deprecation_header |->
        IF e["deprecation_datetime"] # None
        THEN isoformat(e["deprecation_datetime"]) ELSE None,
     sunset_header |->
        IF e["sunset_datetime"] # None
        THEN isoformat(e["sunset_datetime"]) ELSE None]

\* Mutant: the loop returns after comparing the first message.
match_first_only(old_messages, new_message, i) ==
    IF i > Len(old_messages) THEN FALSE
    ELSE new_message = old_messages[i]

\* The loop of lines 155-159 from index i on.
RECURSIVE match_from(_, _, _)
match_from(old_messages, new_message, i) ==
    IF i > Len(old_messages) THEN FALSE
    ELSE IF new_message = old_messages[i] THEN TRUE
    ELSE match_from(old_messages, new_message, i + 1)

check_if_already_send(file, e) ==
    IF file = NoFile
    THEN FALSE
    ELSE match_from(json_load(file["text"]), check_new_message(e), 1)

(***************************************************************************)
(* The Slack sink's operations on one configuration (one history file).    *)
(* http.request either returns or raises; a raise leaves the function      *)
(* before the file is touched.                                             *)
(***************************************************************************)
HistLen(file) == IF file = NoFile THEN 0 ELSE Len(file["text"])

Returned == [kind |-> "return"]
Raised == [kind |-> "raised"]

NoEmit == [runs |-> 0]

SlackInit ==
    /\ slack_file = NoFile
    /\ slack_sent = <<>>
    /\ slack_call = [op |-> "none"]
    /\ slack_emit = NoEmit

\* send_deprecation_webhook_slack(config, e) whose POST returns.  The payload
\* of lines 27-97 goes to the webhook only; nothing of it is kept.
Send(e) ==
    /\ HistLen(slack_file) < MaxHist
    /\ slack_file' = send_write_history(slack_file, e)
    /\ slack_sent' = Append(slack_sent, e)
    /\ slack_call' = [op |-> "send", posted |-> TRUE, result |-> Returned]
    /\ slack_emit' = NoEmit
    /\ UNCHANGED <<detVars, jiraVars, regVars, logVars>>

\* Mutant: the record is written before the POST is made.
SendRaises_after_write(e) ==
    /\ HistLen(slack_file) < MaxHist
    /\ slack_file' = send_write_history(slack_file, e)
    /\ slack_call' = [op |-> "send", posted |-> TRUE, result |-> Raised,
                      event |-> e]
    /\ slack_emit' = NoEmit
    /\ UNCHANGED <<slack_sent, detVars, jiraVars, regVars, logVars>>

\* send_deprecation_webhook_slack(config, e) whose POST raises (line 99).
SendRaises(e) ==
    /\ slack_call' = [op |-> "send", posted |-> TRUE, result |-> Raised,
                      event |-> e]
    /\ slack_emit' = NoEmit
    /\ UNCHANGED <<slack_file, slack_sent, detVars, jiraVars, regVars,
                    logVars>>

\* check_if_already_send(config, e)
Check(e) ==
    /\ slack_call' = [op |-> "check", posted |-> FALSE,
                      result |-> Return(check_if_already_send(slack_file, e))]
    /\ slack_emit' = NoEmit
    /\ UNCHANGED <<slack_file, slack_sent, detVars, jiraVars, regVars,
                    logVars>>

\* The last two entries of a list.
LastTwo(s) == IF Len(s) <= 2 THEN s ELSE SubSeq(s, Len(s) - 1, Len(s))

\* slack_emit after one more completed emit-then-record run with event e
\* whose check returned `already`.
EmitRecorded(e, already) ==
    LET prev == IF slack_emit["runs"] > 0 /\ slack_emit["event"] = e
                THEN slack_emit
                ELSE [runs |-> 0, event |-> e, lens |-> <<>>, checks |-> <<>>]
    IN  [runs |-> IF prev["runs"] < 2 THEN prev["runs"] + 1 ELSE 2,
         event |-> e,
         lens |-> LastTwo(Append(prev["lens"], HistLen(slack_file))),
         checks |-> LastTwo(Append(prev["checks"], already))]

\* The caller's emit-then-record sequence: check_if_already_send, and
\* send_deprecation_webhook_slack only when it returned False.
EmitThenRecord(e) ==
    LET already == check_if_already_send(slack_file, e)
    IN  /\ already \/ HistLen(slack_file) < MaxHist
        /\ slack_file' = IF already THEN slack_file
                         ELSE send_write_history(slack_file, e)
        /\ slack_sent' = IF already THEN slack_sent ELSE Append(slack_sent, e)
        /\ slack_call' = [op |-> "emit", posted |-> ~already,
                          result |-> Returned]
        /\ slack_emit' = EmitRecorded(e, already)
        /\ UNCHANGED <<detVars, jiraVars, regVars, logVars>>

SlackNext ==
    \/ \E e \in Events : Send(e)
    \/ \E e \in Events : SendRaises(e)
    \/ \E e \in Events : Check(e)
    \/ \E e \in Events : EmitThenRecord(e)

(***************************************************************************)
(* jira.py: the Jira sink.  The remote project is the sequence of its      *)
(* issues, oldest first; an issue's id is its position.  The remote keeps  *)
(* a time stamp field as an instant and the parameter (labels) field as a  *)
(* list of labels, empty when the issue was created with none; a search    *)
(* answers with the matching issues in the order of the project.           *)
(***************************************************************************)
MaxIssues == 2      \* most issues in the remote project

\* The configuration's issue type and project keys, and the zone of the
\* serverTime that GET /3/serverInfo answers with (lines 67-69).
DEPRECATION_ISSUE_TYPE_KEY == "Deprecation"
PROJECT_KEY == "API"
ServerTimezone == [utcoffset |-> 1]

JiraEvents ==
    {e \in Events :
        /\ e["deprecation_url"] = BaseEvent["deprecation_url"]
        /\ e["sunset_datetime"] = None
        /\ e["deprecation_datetime"] # DeprecationDate
        /\ e["deprecated_parameter"] \in
              {None, PyList(<<>>), PyList(<<NameA>>),
               PyList(<<NameA, NameB>>)}}

\* datetime.astimezone(tz): the same instant read in the zone tz.
astimezone(dt, tz) ==
    [wall |-> dt["wall"] - dt["utcoffset"] + tz["utcoffset"],
     utcoffset |-> tz["utcoffset"]]

\* strftime("%Y-%m-%d %H:%M"): the wall-clock reading without its zone.
strftime(dt) == PyStr(<<dt["wall"]>>)

\* The remote's reading of an ISO 8601 string with offset (payload lines
\* 149-150): the instant.
ParseInstant(iso) == [instant |-> iso["text"][1] - iso["text"][2]]

\* queryString of lines 64-79, clause by clause.
jql(e) ==
    [type |-> DEPRECATION_ISSUE_TYPE_KEY,
     project |-> PROJECT_KEY,
     url |-> e["deprecation_url"],
     method |-> upper(e["http_method"]),
     status_not |-> "Done",
     deprecation |->
        IF e["deprecation_datetime"] # None
        THEN strftime(astimezone(e["deprecation_datetime"], ServerTimezone))
        ELSE None,
     sunset |->
        IF e["sunset_datetime"] # None
        THEN strftime(astimezone(e["sunset_datetime"], ServerTimezone))
        ELSE None,
     labels_is_empty |-> e["deprecated_parameter"] = None]

\* word occurs in text (the ~ operator of line 64).
Contains(text, word) ==
    \E i \in 0..(Len(text) - Len(word)) :
        SubSeq(text, i + 1, i + Len(word)) = word

\* A time stamp clause >= "t" AND <= "t" (lines 74, 77), the remote reading
\* "t" in the server's zone.
InWindow(stamp, clause) ==
    \/ clause = None
    \/ /\ stamp # None
       /\ <<stamp["instant"] + ServerTimezone["utcoffset"]>> = clause["text"]

\* The issue satisfies every clause of the query.
Matches(issue, query) ==
    /\ issue["type"] = query["type"]
    /\ issue["project"] = query["project"]
    /\ issue["url"] = query["url"]
    /\ Contains(issue["method"], query["method"])
    /\ issue["status"] # query["status_not"]
    /\ InWindow(issue["deprecation"], query["deprecation"])
    /\ InWindow(issue["sunset"], query["sunset"])
    /\ query["labels_is_empty"] => issue["labels"] = <<>>

\* response_data["issues"] of GET /3/search/jql (lines 88-92): the ids of
\* the matching issues.
RECURSIVE search_from(_, _, _)
search_from(issues, query, i) ==
    IF i > Len(issues) THEN <<>>
    ELSE (IF Matches(issues[i], query) THEN <<i>> ELSE <<>>)
             \o search_from(issues, query, i + 1)

search(issues, query) == search_from(issues, query, 1)

\* The requests check_if_issue_exists can make.
ServerInfoRequest == [verb |-> "GET", target |-> "/3/serverInfo"]
SearchRequest == [verb |-> "GET", target |-> "/3/search/jql"]
AddLabelRequest(id, param) ==
    [verb |-> "PUT", target |-> "/3/issue", id |-> id, add |-> param]
CreateRequest == [verb |-> "POST", target |-> "/3/issue"]

\* Mutant: every requested parameter gets an update request.
params_to_add_all(deprecated_parameter, query_deprecated_parameter, i) ==
    SubSeq(deprecated_parameter, i, Len(deprecated_parameter))

\* The parameters of the loop of lines 103-115 that get an update request:
\* those not in the list read from the issue before the loop.
RECURSIVE params_to_add(_, _, _)
params_to_add(deprecated_parameter, query_deprecated_parameter, i) ==
    IF i > Len(deprecated_parameter) THEN <<>>
    ELSE (IF deprecated_parameter[i] \notin Range(query_deprecated_parameter)
          THEN <<deprecated_parameter[i]>> ELSE <<>>)
             \o params_to_add(deprecated_parameter,
                              query_deprecated_parameter, i + 1)

\* The remote's {"add": param} on a labels field, one update after another.
RECURSIVE AddLabels(_, _)
AddLabels(labels, params) ==
    IF params = <<>> THEN labels
    ELSE AddLabels(IF Head(params) \in Range(labels) THEN labels
                   ELSE Append(labels, Head(params)), Tail(params))

\* Requests are numbered in the order the call makes them: 1 and 2 are the
\* reads of lines 67 and 91, 2 + k is the k-th update of line 115.  fail_at
\* is the number of the request that raises; none raises when it is 0 or
\* beyond the requests made.
UpdateFails(to_add, fail_at) == fail_at \in 3..(2 + Len(to_add))

\* Mutant: the loop goes on after an update that raised.
sent_updates_after_failure(to_add, fail_at) == to_add

\* The parameters an update request was made for: an exception of line 115
\* leaves the loop and the function.
sent_updates(to_add, fail_at) ==
    IF UpdateFails(to_add, fail_at)
    THEN SubSeq(to_add, 1, fail_at - 2) ELSE to_add

\* The parameters whose update returned.
applied_updates(to_add, fail_at) ==
    IF UpdateFails(to_add, fail_at)
    THEN SubSeq(to_add, 1, fail_at - 3) ELSE to_add

\* Mutant: True only when the merge branch was taken.
exists_result_merge_only(deprecated_parameter, matches) ==
    truthy(deprecated_parameter) /\ matches # <<>>

\* The value returned by lines 95-97 and 116.
exists_result(deprecated_parameter, matches) ==
    IF ~truthy(deprecated_parameter) \/ matches = <<>>
    THEN matches # <<>>
    ELSE TRUE

\* Mutant: an issue is created when the search finds none.
check_if_issue_exists_creates(issues, e, fail_at) ==
    LET query == jql(e)
        matches == search(issues, query)
        reads == <<ServerInfoRequest, SearchRequest>>
    IN  IF fail_at \in 1..2
        THEN [query |-> query, matches |-> <<>>, issues |-> issues,
              requests |-> SubSeq(reads, 1, fail_at), result |-> Raised]
        ELSE IF matches = <<>>
        THEN [query |-> query, matches |-> matches,
              issues |-> Append(issues,
                                [type |-> DEPRECATION_ISSUE_TYPE_KEY,
                                 project |-> PROJECT_KEY,
                                 url |-> e["deprecation_url"],
                                 deprecation |-> None, sunset |-> None,
                                 method |-> upper(e["http_method"]),
                                 labels |-> <<>>, summary |-> "",
                                 status |-> "To Do"]),
              requests |-> Append(reads, CreateRequest),
              result |-> Return(FALSE)]
        ELSE [query |-> query, matches |-> matches, issues |-> issues,
              requests |-> reads, result |-> Return(TRUE)]

\* check_if_issue_exists (lines 38-116).  The outcome is the query built,
\* the ids the search answered with, the remote issues after the call, the
\* requests made and the result.  An update that raised is not applied.
check_if_issue_exists(issues, e, fail_at) ==
    LET query == jql(e)
        matches == search(issues, query)
        reads == <<ServerInfoRequest, SearchRequest>>
        exists == exists_result(e["deprecated_parameter"], matches)
    IN  IF fail_at \in 1..2
        THEN [query |-> query, matches |-> <<>>, issues |-> issues,
              requests |-> SubSeq(reads, 1, fail_at), result |-> Raised]
        ELSE IF ~truthy(e["deprecated_parameter"]) \/ matches = <<>>
        THEN [query |-> query, matches |-> matches, issues |-> issues,
              requests |-> reads, result |-> Return(exists)]
        ELSE
            LET id == matches[1]
                to_add == params_to_add(e["deprecated_parameter"]["items"],
                                        issues[id]["labels"], 1)
                sent == sent_updates(to_add, fail_at)
            IN  [query |-> query, matches |-> matches,
                 issues |-> [issues EXCEPT ![id]["labels"] =
                     AddLabels(@, applied_updates(to_add, fail_at))],
                 requests |-> reads \o
                     [k \in 1..Len(sent) |-> AddLabelRequest(id, sent[k])],
                 result |-> IF UpdateFails(to_add, fail_at)
                            THEN Raised ELSE Return(exists)]

\* The issue that POST /3/issue creates from the payload of lines 141-161.
NewIssue(e) ==
    [type |-> DEPRECATION_ISSUE_TYPE_KEY,
     project |-> PROJECT_KEY,
     url |-> e["deprecation_url"],
     deprecation |->
        IF e["deprecation_datetime"] # None
        THEN ParseInstant(isoformat(e["deprecation_datetime"])) ELSE None,
     sunset |->
        IF e["sunset_datetime"] # None
        THEN ParseInstant(isoformat(e["sunset_datetime"])) ELSE None,
     method |-> upper(e["http_method"]),
     labels |->
        IF e["deprecated_parameter"] # None
        THEN e["deprecated_parameter"]["items"] ELSE <<>>,
     summary |->
        IF e["deprecated_parameter"] # None
        THEN "At least one parameter of the API endpoint is deprecated."
        ELSE "The API endpoint is deprecated.",
     status |-> "To Do"]

\* create_new_jira_issue (lines 118-162): the remote issues after the call.
create_new_jira_issue(issues, e) == Append(issues, NewIssue(e))

\* The requests of a call with event e that may raise, and 0 for none: the
\* two reads and one update for each parameter of the event.
FailPoints(e) ==
    0..(2 + (IF e["deprecated_parameter"] = None THEN 0
             ELSE Len(e["deprecated_parameter"]["items"])))

JiraInit ==
    /\ jira_issues = <<>>
    /\ jira_call = [fn |-> "none"]

\* check_if_issue_exists(config, e)
CheckIfIssueExists(e, fail_at) ==
    LET out == check_if_issue_exists(jira_issues, e, fail_at)
    IN  /\ jira_issues' = out["issues"]
        /\ jira_call' = [fn |-> "check_if_issue_exists", event |-> e,
                         query |-> out["query"], matches |-> out["matches"],
                         requests |-> out["requests"],
                         result |-> out["result"]]
        /\ UNCHANGED <<detVars, slackVars, regVars, logVars>>

\* create_new_jira_issue(config, e) on its own, without a check before it.
CreateNewJiraIssue(e) ==
    /\ Len(jira_issues) < MaxIssues
    /\ jira_issues' = create_new_jira_issue(jira_issues, e)
    /\ jira_call' = [fn |-> "create_new_jira_issue", event |-> e,
                     requests |-> <<CreateRequest>>, result |-> Returned]
    /\ UNCHANGED <<detVars, slackVars, regVars, logVars>>

\* The caller's check-first sequence: check_if_issue_exists, and
\* create_new_jira_issue only when it returned False.
Notify(e) ==
    LET out == check_if_issue_exists(jira_issues, e, 0)
        create == out["result"] = Return(FALSE)
    IN  /\ create => Len(jira_issues) < MaxIssues
        /\ jira_issues' = IF create
                          THEN create_new_jira_issue(out["issues"], e)
                          ELSE out["issues"]
        /\ jira_call' = [fn |-> "notify", event |-> e,
                         matches |-> out["matches"], created |-> create]
        /\ UNCHANGED <<detVars, slackVars, regVars, logVars>>

\* Somebody moves an issue to the status Done on the remote.
Resolve(id) ==
    /\ id \in DOMAIN jira_issues
    /\ jira_issues[id]["status"] # "Done"
    /\ jira_issues' = [jira_issues EXCEPT ![id]["status"] = "Done"]
    /\ jira_call' = [fn |-> "resolve", id |-> id]
    /\ UNCHANGED <<detVars, slackVars, regVars, logVars>>

\* The Jira sink used by the check-first protocol.
JiraNext ==
    \/ \E e \in JiraEvents : \E fail_at \in FailPoints(e) :
          CheckIfIssueExists(e, fail_at)
    \/ \E e \in JiraEvents : Notify(e)
    \/ \E id \in 1..MaxIssues : Resolve(id)

(***************************************************************************)
(* deprecation.py: the configuration registry (module globals, lines       *)
(* 15-19) and its setters and getters.  A configuration object is a        *)
(* reference: the record of its class, its identity and its file path.     *)
(***************************************************************************)
MaxHeaders == 2     \* most entries of CUSTOM_HTTP_DEPRECATION_HEADER

Logging_Configuration(id, file) ==
    [cls |-> "Logging_Configuration", id |-> id, file |-> file]
Slack_Configuration(id, file_path) ==
    [cls |-> "Slack_Configuration", id |-> id, file_path |-> file_path]
JIRA_Configuration(id) ==
    [cls |-> "JIRA_Configuration", id |-> id]

\* Three Logging_Configuration instances: two of them name one file.
LoggingConfigs ==
    {Logging_Configuration("log1", "deprecation.log"),
     Logging_Configuration("log2", "deprecation.log"),
     Logging_Configuration("log3", "other.log")}
SlackConfigs ==
    {Slack_Configuration("slack1", "slack.json"),
     Slack_Configuration("slack2", "slack.json")}
JiraConfigs == {JIRA_Configuration("jira1"), JIRA_Configuration("jira2")}

\* The arguments the registry operations are called with.
LoggingArgs ==
    {None} \cup {c \in LoggingConfigs : c["id"] \in {"log1", "log3"}}
SlackArgs == {None} \cup SlackConfigs
JiraArgs == {None} \cup JiraConfigs
HeaderLists == SeqsUpTo({"x-deprecated"}, MaxHeaders)

\* bool(x) of `if logging:` (lines 87, 89, 91): None is false; an instance
\* of a dataclass that defines neither __bool__ nor __len__ is true.
config_truthy(x) == x # None

\* Lines 15-19.
RegistryGlobals ==
    [DEPRECATION_DETECTION_ENABLED |-> FALSE,
     CUSTOM_HTTP_DEPRECATION_HEADER |-> <<>>,
     LOGGING_DEPRECATION_CONFIGURATION |-> None,
     SLACK_DEPRECATION_CONFIGURATION |-> None,
     JIRA_DEPRECATION_CONFIGURATION |-> None]

\* Mutant: the three globals are assigned whatever was passed.
set_deprecation_notification_assigns_all(reg, logging, slack, jira) ==
    [reg EXCEPT !["LOGGING_DEPRECATION_CONFIGURATION"] = logging,
                !["SLACK_DEPRECATION_CONFIGURATION"] = slack,
                !["JIRA_DEPRECATION_CONFIGURATION"] = jira]

\* set_deprecation_notification (lines 78-92): the globals after the call.
set_deprecation_notification(reg, logging, slack, jira) ==
    [reg EXCEPT
        !["LOGGING_DEPRECATION_CONFIGURATION"] =
            IF config_truthy(logging) THEN logging ELSE @,
        !["SLACK_DEPRECATION_CONFIGURATION"] =
            IF config_truthy(slack) THEN slack ELSE @,
        !["JIRA_DEPRECATION_CONFIGURATION"] =
            IF config_truthy(jira) THEN jira ELSE @]

RegistryInit ==
    /\ registry = RegistryGlobals
    /\ reg_call = [fn |-> "none"]

SetDeprecationNotification(logging, slack, jira) ==
    /\ registry' = set_deprecation_notification(registry, logging, slack, jira)
    /\ reg_call' = [fn |-> "set_deprecation_notification",
                    logging |-> logging, slack |-> slack, jira |-> jira]
    /\ UNCHANGED <<detVars, slackVars, jiraVars, logVars>>

\* set_deprecation_http_header (lines 94-101)
SetDeprecationHttpHeader(http_header) ==
    /\ registry' =
          [registry EXCEPT !["CUSTOM_HTTP_DEPRECATION_HEADER"] = http_header]
    /\ reg_call' = [fn |-> "set_deprecation_http_header",
                    http_header |-> http_header]
    /\ UNCHANGED <<detVars, slackVars, jiraVars, logVars>>

\* add_deprecation_http_header (lines 103-110): list.extend
AddDeprecationHttpHeader(http_header) ==
    /\ Len(registry["CUSTOM_HTTP_DEPRECATION_HEADER"]) + Len(http_header)
          <= MaxHeaders
    /\ registry' =
          [registry EXCEPT !["CUSTOM_HTTP_DEPRECATION_HEADER"] =
                               @ \o http_header]
    /\ reg_call' = [fn |-> "add_deprecation_http_header",
                    http_header |-> http_header]
    /\ UNCHANGED <<detVars, slackVars, jiraVars, logVars>>

\* deprecation_detection (lines 112-119)
DeprecationDetection(enabled) ==
    /\ registry' =
          [registry EXCEPT !["DEPRECATION_DETECTION_ENABLED"] = enabled]
    /\ reg_call' = [fn |-> "deprecation_detection", enabled |-> enabled]
    /\ UNCHANGED <<detVars, slackVars, jiraVars, logVars>>

\* The getters (lines 121-126 and 158-184) return one global each.
Getters ==
    [get_deprecation_detection |-> "DEPRECATION_DETECTION_ENABLED",
     get_deprecation_http_header |-> "CUSTOM_HTTP_DEPRECATION_HEADER",
     get_logging_configuration |-> "LOGGING_DEPRECATION_CONFIGURATION",
     get_slack_configuration |-> "SLACK_DEPRECATION_CONFIGURATION",
     get_jira_configuration |-> "JIRA_DEPRECATION_CONFIGURATION"]

CallGetter(fn) ==
    /\ reg_call' = [fn |-> fn, result |-> Return(registry[Getters[fn]])]
    /\ UNCHANGED <<registry, detVars, slackVars, jiraVars, logVars>>

RegistryNext ==
    \/ \E logging \in LoggingArgs, slack \in SlackArgs, jira \in JiraArgs :
          SetDeprecationNotification(logging, slack, jira)
    \/ \E http_header \in HeaderLists : SetDeprecationHttpHeader(http_header)
    \/ \E http_header \in HeaderLists : AddDeprecationHttpHeader(http_header)
    \/ \E enabled \in BOOLEAN : DeprecationDetection(enabled)
    \/ \E fn \in DOMAIN Getters : CallGetter(fn)

(***************************************************************************)
(* deprecation.py: create_log, the log sink.  logging.getLogger(name)      *)
(* returns the one process-wide logger of that name, so every             *)
(* configuration whose logger field is None adds its FileHandler to the    *)
(* same logger "deprecation_logger", and Logger.warning hands the record   *)
(* to every handler of the logger.  A FileHandler appends to its file.     *)
(***************************************************************************)
MaxLines == 3       \* most lines in one log file

LogFiles == {c["file"] : c \in LoggingConfigs}

LogEvents ==
    {e \in Events :
        Deviations(e) = 0 \/ e["deprecated_parameter"] = PyList(<<NameA>>)}

\* The text "None" of lines 152-154.
NoneText == PyStr(<<78, 111, 110, 101>>)

\* log_message of lines 149-155, field by field.
log_message(e) ==
    [url |-> e["deprecation_url"],
     http_method |-> e["http_method"],
     deprecated_parameter |->
        IF truthy(e["deprecated_parameter"])
        THEN e["deprecated_parameter"] ELSE NoneText,
     deprecation_date |->
        IF e["deprecation_datetime"] # None
        THEN isoformat(e["deprecation_datetime"]) ELSE NoneText,
     sunset_date |->
        IF e["sunset_datetime"] # None
        THEN isoformat(e["sunset_datetime"]) ELSE NoneText]

\* The number of handlers in the list that write to the file at path.
HandlersOn(handlers, path) ==
    Cardinality({i \in DOMAIN handlers : handlers[i] = path})

\* n copies of a line.
Repeat(line, n) == [i \in 1..n |-> line]

\* Lines 140-147: the handlers of the shared logger after the lazy set-up.
create_log_handlers(state, config) ==
    IF state["logger"][config["id"]] = None
    THEN Append(state["handlers"], config["file"])
    ELSE state["handlers"]

\* create_log (lines 128-156): handlers, files and logger fields after the
\* call.  config.logger.warning (line 156) emits the line once per handler.
create_log(state, config, e) ==
    LET handlers == create_log_handlers(state, config)
    IN  [handlers |-> handlers,
         files |-> [path \in LogFiles |->
                      state["files"][path] \o
                          Repeat(log_message(e), HandlersOn(handlers, path))],
         logger |-> [state["logger"] EXCEPT
                        ![config["id"]] = PyStr("deprecation_logger")]]

LineCounts(files) == [path \in LogFiles |-> Len(files[path])]

LogInit ==
    /\ log_state = [handlers |-> <<>>,
                    files |-> [path \in LogFiles |-> <<>>],
                    logger |-> [id \in {c["id"] : c \in LoggingConfigs}
                                  |-> None]]
    /\ log_call = [fn |-> "none"]

CreateLog(config, e) ==
    LET after == create_log(log_state, config, e)
    IN  /\ \A path \in LogFiles : Len(after["files"][path]) <= MaxLines
        /\ log_state' = after
        /\ log_call' = [fn |-> "create_log", config |-> config, event |-> e,
                        before |-> LineCounts(log_state["files"])]
        /\ UNCHANGED <<detVars, slackVars, jiraVars, regVars>>

LogNext == \E config \in LoggingConfigs, e \in LogEvents : CreateLog(config, e)

(***************************************************************************)
(* Specifications.                                                         *)
(***************************************************************************)
SinksInit == SlackInit /\ JiraInit /\ RegistryInit /\ LogInit

Init == DetectionInit /\ SinksInit

Next ==
    \/ DetectionNext
    \/ SlackNext
    \/ JiraNext
    \/ \E e \in JiraEvents : CreateNewJiraIssue(e)
    \/ RegistryNext
    \/ LogNext

Spec == Init /\ [][Next]_vars

\* The detection functions alone, on every document.
DetectionSpec == Init /\ [][DetectionNext]_vars

\* The Slack sink alone.
SlackSpecInit ==
    /\ oas = [paths |-> << >>] /\ det_call = NoCall /\ det_result = NoCall
    /\ SinksInit

SlackSpec == SlackSpecInit /\ [][SlackNext]_vars

\* The Jira sink alone, issues being created by the check-first protocol.
JiraSpec == SlackSpecInit /\ [][JiraNext]_vars

\* The configuration registry alone.
RegistrySpec == SlackSpecInit /\ [][RegistryNext]_vars

\* The log sink alone.
LogSpec == SlackSpecInit /\ [][LogNext]_vars

(***************************************************************************)
(* Properties of the detection functions (checked under DetectionSpec).    *)
(***************************************************************************)
IsUpperLetter(c) == c \in 65..90

\* k is m with each upper-case letter replaced by its lower-case letter.
IsLowercaseOf(k, m) ==
    /\ Len(k) = Len(m)
    /\ \A i \in DOMAIN m :
          k[i] = IF IsUpperLetter(m[i]) THEN m[i] + 32 ELSE m[i]

\* s and t differ only in letter case.
SameLetters(s, t) ==
    /\ Len(s) = Len(t)
    /\ \A i \in DOMAIN s :
          \/ s[i] = t[i]
          \/ IsUpperLetter(s[i]) /\ t[i] = s[i] + 32
          \/ IsUpperLetter(t[i]) /\ s[i] = t[i] + 32

CallMade(fn) == det_call["kind"] = "call" /\ det_call["fn"] = fn

\* The keys under the call's path that are the call's method in lower case.
CalledKeys ==
    IF det_call["path"] \in DOMAIN oas["paths"]
    THEN {k \in DOMAIN oas["paths"][det_call["path"]] :
            IsLowercaseOf(k, det_call["method"])}
    ELSE {}

\* The call names an operation of the document.
CallLocated == det_call["kind"] = "call" /\ CalledKeys # {}

CalledOperation ==
    oas["paths"][det_call["path"]][CHOOSE k \in CalledKeys : TRUE]

\* C1: for a (path, method) present in the document, is_operation_deprecated
\* returns exactly the value stored under the operation's "deprecated" key,
\* and False when the operation has no such key.
C1_ReturnsStoredFlag ==
    (CallMade("is_operation_deprecated") /\ CallLocated) =>
        det_result =
            Return(IF "deprecated" \in DOMAIN CalledOperation
                   THEN CalledOperation["deprecated"]
                   ELSE FALSE)

\* An operation stored as deprecated was looked up, and one stored with
\* deprecated: false beside it would have answered differently.
C1_Witness ==
    /\ CallMade("is_operation_deprecated") /\ CallLocated
    /\ "deprecated" \in DOMAIN CalledOperation
    /\ CalledOperation["deprecated"]
    /\ det_result = Return(TRUE)

\* C2: when the path is no key of the document's paths, or the lower-cased
\* method is no key under that path, both detection functions raise the
\* not-found error (KeyError) and return nothing: no default, no matching
\* of a request path against a path template.
C2_AbsentRaisesNotFound ==
    (det_call["kind"] = "call" /\ ~CallLocated) =>
        det_result["kind"] = "KeyError"

\* The request path /users/1 was looked up in a document that declares the
\* template /users/{id}, and the call raised.
C2_Witness ==
    /\ CallMade("are_parameter_deprecated")
    /\ det_call["path"] = "/users/1"
    /\ "/users/{id}" \in DOMAIN oas["paths"]
    /\ det_result["kind"] = "KeyError"

\* The declared parameters that are deprecated: true, requested, and in the
\* query, in declaration order.
DeprecatedRequestedQuery(declared, requested) ==
    LET Flagged(p) ==
            /\ "deprecated" \in DOMAIN p
            /\ p["deprecated"] = TRUE
            /\ \E i \in DOMAIN requested : requested[i] = p["name"]
            /\ p["in"] = "query"
        kept == SelectSeq(declared, Flagged)
    IN  [i \in DOMAIN kept |-> kept[i]["name"]]

\* C3: for an operation with a "parameters" field, are_parameter_deprecated
\* returns exactly the names of the declared parameters that are marked
\* deprecated: true, are in the requested list and have location "query"
\* (so none for a deprecated header, path or cookie parameter, whatever its
\* name), and the returned boolean is true iff that list is not empty.
C3_ExactlyDeprecatedRequestedQuery ==
    (/\ CallMade("are_parameter_deprecated") /\ CallLocated
     /\ "parameters" \in DOMAIN CalledOperation) =>
        LET names == DeprecatedRequestedQuery(CalledOperation["parameters"],
                                              det_call["parameter"])
        IN  /\ det_result["kind"] = "return"
            /\ det_result["value"][2] = names
            /\ det_result["value"][1] = (det_result["value"][2] # <<>>)

\* A deprecated header parameter "a" is declared beside the deprecated query
\* parameter "a", "a" is requested, and "a" is returned once only.
C3_Witness ==
    /\ CallMade("are_parameter_deprecated") /\ CallLocated
    /\ "parameters" \in DOMAIN CalledOperation
    /\ CalledOperation["parameters"] =
          <<Param(NameA, "header", TRUE), Param(NameA, "query", TRUE)>>
    /\ det_call["parameter"] = <<NameA>>
    /\ det_result = Return(<<TRUE, <<NameA>>>>)

\* C4: for a located operation, are_parameter_deprecated raises the
\* not-found error exactly when the operation has no "parameters" field;
\* with a "parameters" field that is an empty list it returns (False, []).
C4_OnlyMissingParametersRaises ==
    (CallMade("are_parameter_deprecated") /\ CallLocated) =>
        /\ (det_result["kind"] = "KeyError") <=>
              ("parameters" \notin DOMAIN CalledOperation)
        /\ ("parameters" \in DOMAIN CalledOperation
              /\ CalledOperation["parameters"] = <<>>) =>
              det_result = Return(<<FALSE, <<>>>>)

\* An operation whose "parameters" is the empty list was asked about
\* requested names and answered (False, []).
C4_Witness ==
    /\ CallMade("are_parameter_deprecated") /\ CallLocated
    /\ "parameters" \in DOMAIN CalledOperation
    /\ CalledOperation["parameters"] = <<>>
    /\ det_call["parameter"] # <<>>
    /\ det_result = Return(<<FALSE, <<>>>>)

\* C5: the method argument is case-insensitive: the call made and the same
\* call with any method string that differs only in letter case end alike
\* (the same value returned, or the same not-found error).
C5_MethodCaseInsensitive ==
    det_call["kind"] = "call" =>
        \A m \in RequestMethods :
            SameLetters(m, det_call["method"]) =>
                det_result =
                    IF det_call["fn"] = "is_operation_deprecated"
                    THEN is_operation_deprecated(oas, det_call["path"], m)
                    ELSE are_parameter_deprecated(oas, det_call["path"], m,
                                                  det_call["parameter"])

\* "GET" was passed for an operation stored under "get" and the call
\* returned what "get" and "Get" return.
C5_Witness ==
    /\ CallMade("is_operation_deprecated") /\ CallLocated
    /\ det_call["method"] = GET
    /\ det_result = Return(TRUE)
    /\ is_operation_deprecated(oas, det_call["path"], get) = Return(TRUE)
    /\ is_operation_deprecated(oas, det_call["path"], Get) = Return(TRUE)

(***************************************************************************)
(* Properties of the Slack sink (checked under SlackSpec).                 *)
(***************************************************************************)
\* The names of an event's parameter list; none when the list is absent.
ParamNames(e) ==
    IF e["deprecated_parameter"] = None
    THEN <<>> ELSE e["deprecated_parameter"]["items"]

Occurrences(lst, n) == Cardinality({i \in DOMAIN lst : lst[i] = n})

\* lst and other hold the same names the same number of times.
IsPermutation(lst, other) ==
    /\ Len(lst) = Len(other)
    /\ \A n \in Range(lst) \cup Range(other) :
          Occurrences(lst, n) = Occurrences(other, n)

SameUrlAndTimestamps(a, b) ==
    /\ a["deprecation_url"] = b["deprecation_url"]
    /\ a["deprecation_datetime"] = b["deprecation_datetime"]
    /\ a["sunset_datetime"] = b["sunset_datetime"]

\* The identity rule: all five fields, the parameters compared as a sorted
\* sequence, an absent parameter list equal to an empty one.  (The method
\* and the timestamps are compared as given: the method's letter case is the
\* subject of C9, and one instant read in two zones is two timestamps.)
SameEvent(a, b) ==
    /\ SameUrlAndTimestamps(a, b)
    /\ a["http_method"] = b["http_method"]
    /\ IsPermutation(ParamNames(a), ParamNames(b))

CheckReturned(v) ==
    slack_call["op"] = "check" /\ slack_call["result"] = Return(v)

C7_EmitTwiceRecordsOnce ==
    (slack_emit["runs"] = 2 /\ ~slack_emit["checks"][1]) =>
        /\ slack_emit["checks"][2]
        /\ HistLen(slack_file) = slack_emit["lens"][1] + 1

\* Two such runs were made on a history that already held another record.
C7_Witness ==
    /\ slack_emit["runs"] = 2
    /\ slack_emit["checks"] = <<FALSE, TRUE>>
    /\ slack_emit["lens"] = <<1, 2>>
    /\ HistLen(slack_file) = 2
    /\ slack_call["op"] = "emit" /\ ~slack_call["posted"]

\* C8: after a send recorded an event with parameter list P, the check of
\* an event with the same url, method and timestamps and any permutation
\* of P returns True.
C8_ParameterOrderIgnored ==
    \A i \in DOMAIN slack_sent : \A e \in Events :
        (/\ SameUrlAndTimestamps(slack_sent[i], e)
         /\ slack_sent[i]["http_method"] = e["http_method"]
         /\ slack_sent[i]["deprecated_parameter"] # None
         /\ e["deprecated_parameter"] # None
         /\ IsPermutation(ParamNames(slack_sent[i]), ParamNames(e))) =>
            check_if_already_send(slack_file, e)

\* ["b", "a"] was sent and the check of ["a", "b"] returns True.
C8_Witness ==
    /\ CheckReturned(TRUE)
    /\ Len(slack_sent) = 1
    /\ ParamNames(slack_sent[1]) = <<NameB, NameA>>
    /\ \E e \in Events :
          /\ ParamNames(e) = <<NameA, NameB>>
          /\ check_if_already_send(slack_file, e)

\* C9: after a send recorded an event with method m, the check of an event
\* that is identical except that its method differs from m in letter case
\* only returns True.
C9_MethodCaseIgnored ==
    \A i \in DOMAIN slack_sent : \A e \in Events :
        (/\ SameUrlAndTimestamps(slack_sent[i], e)
         /\ slack_sent[i]["deprecated_parameter"] = e["deprecated_parameter"]
         /\ SameLetters(slack_sent[i]["http_method"], e["http_method"])) =>
            check_if_already_send(slack_file, e)

\* C10: an absent and an empty parameter list denote the same event: after
\* a send with one of them, the check with the other (same url, method and
\* timestamps) returns True.
C10_AbsentEqualsEmpty ==
    \A i \in DOMAIN slack_sent : \A e \in Events :
        (/\ SameUrlAndTimestamps(slack_sent[i], e)
         /\ slack_sent[i]["http_method"] = e["http_method"]
         /\ ParamNames(slack_sent[i]) = <<>>
         /\ ParamNames(e) = <<>>) =>
            check_if_already_send(slack_file, e)

\* The history holds an event sent with no parameter list and the same event
\* sent with an empty list, a check returned True, and the check of either
\* with the other's parameter list returns True.
C10_Witness ==
    /\ CheckReturned(TRUE)
    /\ \E i, j \in DOMAIN slack_sent :
          /\ slack_sent[i]["deprecated_parameter"] = None
          /\ slack_sent[j]["deprecated_parameter"] = PyList(<<>>)
          /\ SameUrlAndTimestamps(slack_sent[i], slack_sent[j])
          /\ slack_sent[i]["http_method"] = slack_sent[j]["http_method"]
          /\ check_if_already_send(slack_file,
                [slack_sent[i] EXCEPT !["deprecated_parameter"] = PyList(<<>>)])
          /\ check_if_already_send(slack_file,
                [slack_sent[j] EXCEPT !["deprecated_parameter"] = None])

\* The ascending arrangement of a list of names.
Ascending(lst) ==
    CHOOSE s \in [1..Len(lst) -> Range(lst)] :
        /\ IsPermutation(lst, s)
        /\ \A i, j \in 1..Len(lst) : i < j => ~str_lt(s[j], s[i])

\* The canonical form of an event: url and method as given, the parameters
\* ascending or null when there are none, the timestamps as ISO strings or
\* null.
CanonicalRecord(e) ==
    [url |-> e["deprecation_url"],
     http_method |-> e["http_method"],
     deprecated_parameter |->
        IF ParamNames(e) = <<>> THEN None
        ELSE PyList(Ascending(ParamNames(e))),
     deprecation_header |->
        IF e["deprecation_datetime"] = None THEN None
        ELSE isoformat(e["deprecation_datetime"]),
     sunset_header |->
        IF e["sunset_datetime"] = None THEN None
        ELSE isoformat(e["sunset_datetime"])]

\* The records of the history file, none while it does not exist.
HistoryRecords ==
    IF slack_file = NoFile THEN <<>> ELSE json_load(slack_file["text"])

SendRaisedStep ==
    /\ slack_call'["op"] = "send"
    /\ slack_call'["result"] = Raised

\* C18: a send whose webhook call raises leaves the history file exactly as
\* it was: not created if it did not exist, no record added; so the check of
\* that event returns afterwards what it returned before the send (False
\* if the event was not recorded).
C18_FailedPostLeavesHistory ==
    [][SendRaisedStep =>
          /\ slack_file' = slack_file
          /\ slack_file = NoFile => slack_file' = NoFile
          /\ check_if_already_send(slack_file', slack_call'["event"]) <=>
                check_if_already_send(slack_file, slack_call'["event"])]_vars

\* A send raised while the history file did not exist: the file still does
\* not exist and the check of the event returns False.
C18_Witness ==
    /\ slack_call["op"] = "send" /\ slack_call["result"] = Raised
    /\ slack_file = NoFile
    /\ ~check_if_already_send(slack_file, slack_call["event"])
    /\ ParamNames(slack_call["event"]) = <<NameA>>

(***************************************************************************)
(* Properties of the Jira sink (checked under JiraSpec).                   *)
(***************************************************************************)
\* The last operation was a check_if_issue_exists call.
JiraChecked == jira_call["fn"] = "check_if_issue_exists"

\* The step is a check_if_issue_exists call.
JiraCheckStep == jira_call'["fn"] = "check_if_issue_exists"

\* The update requests among the requests of a call, in order.
RECURSIVE Updates(_)
Updates(requests) ==
    IF requests = <<>> THEN <<>>
    ELSE (IF Head(requests)["verb"] = "PUT" THEN <<Head(requests)>> ELSE <<>>)
             \o Updates(Tail(requests))

\* The number of add-label updates for parameter p sent to issue id.
UpdatesFor(requests, id, p) ==
    Cardinality({k \in DOMAIN Updates(requests) :
                    /\ Updates(requests)[k]["id"] = id
                    /\ Updates(requests)[k]["add"] = p})

\* C12: whenever check_if_issue_exists returns, it returns True iff the
\* search answered with at least one issue: False on zero matches with or
\* without a parameter list, True on one or more matches whether or not an
\* update was made.
C12_ExistsIffMatched ==
    (JiraChecked /\ jira_call["result"]["kind"] = "return") =>
        (jira_call["result"]["value"] <=> jira_call["matches"] # <<>>)

\* A check with parameters matched an issue, sent an update and returned
\* True.
C12_Witness ==
    /\ JiraChecked
    /\ jira_call["result"] = Return(TRUE)
    /\ jira_call["matches"] # <<>>
    /\ ParamNames(jira_call["event"]) = <<NameA, NameB>>
    /\ Len(Updates(jira_call["requests"])) = 1

\* The step is a check with a non-empty parameter list that matched.
JiraMergeStep ==
    /\ JiraCheckStep
    /\ ParamNames(jira_call'["event"]) # <<>>
    /\ jira_call'["matches"] # <<>>

\* C13: a check with a non-empty parameter list that matched sends its
\* updates to the first matching issue only, none for a parameter the
\* issue's field already held and at most one for any other; when the call
\* returns (every update succeeded) it has sent exactly one for every
\* requested parameter the field did not hold, and the field then holds
\* every requested parameter.  The field never loses a parameter and gains
\* requested ones only, and no other issue changes.
C13_MergeAddsMissingParameters ==
    [][JiraMergeStep =>
        LET id == jira_call'["matches"][1]
            held == Range(jira_issues[id]["labels"])
            requested == Range(ParamNames(jira_call'["event"]))
            sent == Updates(jira_call'["requests"])
            now == Range(jira_issues'[id]["labels"])
        IN  /\ \A k \in DOMAIN sent :
                  sent[k]["id"] = id /\ sent[k]["add"] \in requested \ held
            /\ \A p \in requested :
                  UpdatesFor(jira_call'["requests"], id, p) <= 1
            /\ jira_call'["result"]["kind"] = "return" =>
                  /\ \A p \in requested \ held :
                        UpdatesFor(jira_call'["requests"], id, p) = 1
                  /\ requested \subseteq now
            /\ held \subseteq now /\ now \subseteq held \cup requested
            /\ \A other \in DOMAIN jira_issues' :
                  other # id => jira_issues'[other] = jira_issues[other]
            /\ DOMAIN jira_issues' = DOMAIN jira_issues]_vars

\* A check with ["a", "b"] matched an issue that held "a": one update, for
\* "b", was sent and the issue now holds both.
C13_Witness ==
    /\ JiraChecked
    /\ jira_call["result"] = Return(TRUE)
    /\ jira_call["matches"] # <<>>
    /\ ParamNames(jira_call["event"]) = <<NameA, NameB>>
    /\ jira_call["requests"] =
          <<ServerInfoRequest, SearchRequest,
            AddLabelRequest(jira_call["matches"][1], NameB)>>
    /\ jira_issues[jira_call["matches"][1]]["labels"] = <<NameA, NameB>>

\* Two issues are about one deprecation: same URL, method and timestamps.
SameDeprecation(a, b) ==
    /\ a["url"] = b["url"]
    /\ a["method"] = b["method"]
    /\ a["deprecation"] = b["deprecation"]
    /\ a["sunset"] = b["sunset"]

\* C16: issues being created by the check-first protocol only, no two
\* issues that are not Done are about one deprecation (same URL, method and
\* deprecation and sunset timestamps).
C16_NoDuplicateIssue ==
    \A i, j \in DOMAIN jira_issues :
        (/\ i # j
         /\ jira_issues[i]["status"] # "Done"
         /\ jira_issues[j]["status"] # "Done") =>
            ~SameDeprecation(jira_issues[i], jira_issues[j])

\* C17: a check with an empty parameter list builds the query that the
\* check of the same event with the list absent builds, and returns on the
\* remote issues what that check returns.
C17_EmptyListAsAbsent ==
    (JiraChecked /\ jira_call["event"]["deprecated_parameter"] = PyList(<<>>)
        /\ jira_call["result"]["kind"] = "return") =>
        LET absent == [jira_call["event"] EXCEPT
                          !["deprecated_parameter"] = None]
        IN  /\ jira_call["query"] = jql(absent)
            /\ jira_call["result"] =
                  check_if_issue_exists(jira_issues, absent, 0)["result"]

\* C19: a check never adds an issue and never sends a creating request;
\* when no (or an empty) parameter list was given or no issue matched it
\* leaves every issue as it was and sends read requests only.
C19_CheckOnlyReads ==
    [][JiraCheckStep =>
        /\ DOMAIN jira_issues' = DOMAIN jira_issues
        /\ \A k \in DOMAIN jira_call'["requests"] :
              jira_call'["requests"][k]["verb"] # "POST"
        /\ (ParamNames(jira_call'["event"]) = <<>>
               \/ jira_call'["matches"] = <<>>) =>
              /\ jira_issues' = jira_issues
              /\ \A k \in DOMAIN jira_call'["requests"] :
                    jira_call'["requests"][k]
                        \in {ServerInfoRequest, SearchRequest}]_vars

\* A check without parameters matched an issue that holds parameters: two
\* read requests, True, nothing else.
C19_Witness ==
    /\ JiraChecked
    /\ jira_call["event"]["deprecated_parameter"] = PyList(<<>>)
    /\ jira_call["matches"] # <<>>
    /\ jira_call["result"] = Return(TRUE)
    /\ jira_call["requests"] = <<ServerInfoRequest, SearchRequest>>
    /\ jira_issues[jira_call["matches"][1]]["labels"] # <<>>

\* The step is a check whose last request, an update, raised.
JiraUpdateRaisedStep ==
    /\ JiraCheckStep
    /\ jira_call'["result"] = Raised
    /\ Updates(jira_call'["requests"]) # <<>>

\* The position of name p in the list lst.
IndexOf(lst, p) == CHOOSE i \in DOMAIN lst : lst[i] = p

\* C20: when an update of the merge loop raises, check_if_issue_exists
\* raises: the failing update is the last request made, so no update was
\* sent for a parameter that follows the failing one in the requested list,
\* and the parameters whose updates returned before it are in the issue's
\* field.
C20_FailedUpdateAborts ==
    [][JiraUpdateRaisedStep =>
        LET id == jira_call'["matches"][1]
            requested == ParamNames(jira_call'["event"])
            sent == Updates(jira_call'["requests"])
            failing == sent[Len(sent)]["add"]
        IN  /\ jira_call'["requests"][Len(jira_call'["requests"])]["verb"]
                  = "PUT"
            /\ jira_call'["result"]["kind"] # "return"
            /\ \A i \in DOMAIN requested :
                  i > IndexOf(requested, failing) =>
                      UpdatesFor(jira_call'["requests"], id, requested[i]) = 0
            /\ \A k \in 1..(Len(sent) - 1) :
                  sent[k]["add"] \in Range(jira_issues'[id]["labels"])
            /\ Range(jira_issues[id]["labels"])
                  \subseteq Range(jira_issues'[id]["labels"])]_vars

\* A check with ["a", "b"] on an issue holding neither: the update for "a"
\* raised, no update for "b" was sent and the issue holds neither.
C20_Witness ==
    /\ JiraChecked
    /\ jira_call["result"] = Raised
    /\ jira_call["matches"] # <<>>
    /\ ParamNames(jira_call["event"]) = <<NameA, NameB>>
    /\ jira_call["requests"] =
          <<ServerInfoRequest, SearchRequest,
            AddLabelRequest(jira_call["matches"][1], NameA)>>
    /\ jira_issues[jira_call["matches"][1]]["labels"] = <<>>

(***************************************************************************)
(* Properties of the configuration registry (checked under RegistrySpec).  *)
(***************************************************************************)
\* The global of each sink and the setter's argument for it.
SinkGlobals ==
    [logging |-> "LOGGING_DEPRECATION_CONFIGURATION",
     slack |-> "SLACK_DEPRECATION_CONFIGURATION",
     jira |-> "JIRA_DEPRECATION_CONFIGURATION"]

\* The step is a set_deprecation_notification call.
SetterStep == reg_call'["fn"] = "set_deprecation_notification"

\* C14: the three sink configurations start unset; a
\* set_deprecation_notification call leaves a sink for which nothing is
\* passed with the configuration it had and gives a sink for which a
\* configuration is passed exactly that configuration; no other operation
\* changes a sink's configuration.
C14_SetterPartialUpdate ==
    /\ \A sink \in DOMAIN SinkGlobals : registry[SinkGlobals[sink]] = None
    /\ [][\A sink \in DOMAIN SinkGlobals :
            /\ SetterStep =>
                  registry'[SinkGlobals[sink]] =
                      IF reg_call'[sink] = None
                      THEN registry[SinkGlobals[sink]] ELSE reg_call'[sink]
            /\ ~SetterStep =>
                  registry'[SinkGlobals[sink]] = registry[SinkGlobals[sink]]
         ]_vars

\* The setter was called with a logging configuration only: the Slack sink
\* kept the configuration of an earlier call, the log sink holds the one
\* passed and the Jira sink is still unset.
C14_Witness ==
    /\ reg_call["fn"] = "set_deprecation_notification"
    /\ reg_call["logging"] # None
    /\ reg_call["slack"] = None /\ reg_call["jira"] = None
    /\ registry["LOGGING_DEPRECATION_CONFIGURATION"] = reg_call["logging"]
    /\ registry["SLACK_DEPRECATION_CONFIGURATION"] \in SlackConfigs
    /\ registry["JIRA_DEPRECATION_CONFIGURATION"] = None

(***************************************************************************)
(* Properties of the log sink (checked under LogSpec).                     *)
(***************************************************************************)
\* C15: every create_log call adds exactly one line, the message of its
\* event, to the file of the configuration passed and no line to any other
\* file.
C15_OneLinePerCall ==
    log_call["fn"] = "create_log" =>
        /\ \A path \in LogFiles :
              Len(log_state["files"][path]) =
                  log_call["before"][path] +
                      (IF path = log_call["config"]["file"] THEN 1 ELSE 0)
        /\ LET file == log_state["files"][log_call["config"]["file"]]
           IN  file # <<>> /\ file[Len(file)] = log_message(log_call["event"])

(***************************************************************************)
(* The order of the list are_parameter_deprecated returns (checked under   *)
(* DetectionSpec).                                                         *)
(***************************************************************************)
\* names lists names of declared parameters at increasing positions of the
\* declaration.
InDeclarationOrder(names, declared) ==
    \E f \in [DOMAIN names -> DOMAIN declared] :
        /\ \A k \in DOMAIN names : names[k] = declared[f[k]]["name"]
        /\ \A k, l \in DOMAIN names : k < l => f[k] < f[l]

\* C21: the list are_parameter_deprecated returns follows the declaration
\* order of the operation's "parameters" field, and the call with any
\* permutation of the requested names returns the same tuple.
C21_DeclarationOrder ==
    (CallMade("are_parameter_deprecated") /\ det_result["kind"] = "return") =>
        /\ InDeclarationOrder(det_result["value"][2],
                              CalledOperation["parameters"])
        /\ \A q \in RequestedNames :
              IsPermutation(q, det_call["parameter"]) =>
                  are_parameter_deprecated(oas, det_call["path"],
                                           det_call["method"], q) = det_result

\* "b" is declared before "a", both deprecated query parameters; the call
\* with ["a", "b"] returned ["b", "a"].
C21_Witness ==
    /\ CallMade("are_parameter_deprecated") /\ CallLocated
    /\ det_call["parameter"] = <<NameA, NameB>>
    /\ det_result = Return(<<TRUE, <<NameB, NameA>>>>)
    /\ CalledOperation["parameters"] =
          <<Param(NameB, "query", TRUE), Param(NameA, "query", TRUE)>>

=============================================================================
